---- MODULE Spec2Model ----
(***************************************************************************)
(* Model of shutterfly-dl (src/main.py): the coordinate converter, the     *)
(* download loop of download_albums over a small file system, and the      *)
(* command-line orchestration of main.                                     *)
(*                                                                         *)
(* Strings and paths are sequences of one-character strings, so that the   *)
(* substring tests and the slice of lines 75-78 are computed as the code   *)
(* computes them.  A uuid4 is one fresh token of UuidPool.                 *)
(* A float degree value is an exact multiple of 1/(3600*SubSec) degree.    *)
(***************************************************************************)
EXTENDS Integers, Sequences, FiniteSets, TLC

\* ---------------------------------------------------------------- bounds
MaxAlbums == 2
MaxPhotos == 2
MaxCalls == 2
MaxArcSec == 3700
SubSec == 2

\* ------------------------------------------------------- string helpers
DotJpg == <<".", "j", "p", "g">>
FileJpg == <<"f", "i", "l", "e">> \o DotJpg
Sep == <<"/">>

\* python: sub in s
Contains(s, sub) ==
    \E i \in 1..(Len(s) - Len(sub) + 1) : SubSeq(s, i, i + Len(sub) - 1) = sub

\* python: s[:-n]
DropLast(s, n) == SubSeq(s, 1, Len(s) - n)

\* python: s.replace(a, b) for one-character a and b
Replace(s, a, b) == [i \in 1..Len(s) |-> IF s[i] = a THEN b ELSE s[i]]

InvalidFilenameChars == {"/", "?", ":"}
InvalidFilepathChars == {"?", ":"}

RECURSIVE RStrip(_)
RStrip(s) ==
    IF s # <<>> /\ s[Len(s)] \in {" ", "."}
    THEN RStrip(DropLast(s, 1))
    ELSE s

\* pathvalidate.sanitize_filename: drops the characters no file name may
\* hold and the trailing spaces and dots
sanitize_filename(s) ==
    RStrip(SelectSeq(s, LAMBDA c : c \notin InvalidFilenameChars))

\* pathvalidate.sanitize_filepath: as above, keeping the separators
sanitize_filepath(s) ==
    RStrip(SelectSeq(s, LAMBDA c : c \notin InvalidFilepathChars))

\* pathlib: dir / name
Join(dir, name) == dir \o Sep \o name

\* pathlib: the parent of a path (the text before its last separator)
RECURSIVE Parent(_)
Parent(p) ==
    IF p = <<>> THEN <<>>
    ELSE IF p[Len(p)] = "/" THEN DropLast(p, 1)
    ELSE Parent(DropLast(p, 1))

\* the last component of a path
RECURSIVE Basename(_)
Basename(p) ==
    IF p = <<>> \/ p[Len(p)] = "/" THEN <<>>
    ELSE Basename(DropLast(p, 1)) \o <<p[Len(p)]>>

UuidPool == <<"U1", "U2", "U3", "U4", "U5", "U6", "U7", "U8", "U9", "U10", "U11", "U12">>
uuid4(n) == <<UuidPool[n]>>

\* ------------------------------------------------- coordinate converter
NoDms == <<>>
NoCoordinate == <<>>

\* int(x) of a float x given in 1/SubSec units: truncation towards zero
IntOf(u) == IF u >= 0 THEN u \div SubSec ELSE -((-u) \div SubSec)

\* decimal_to_dms with the sign put on the seconds whenever degrees is zero
decimal_to_dms_nominutes(decimal) ==
    LET negative == decimal < 0
        dec == IF negative THEN -decimal ELSE decimal
        minutes0 == dec \div (60 * SubSec)
        seconds0 == dec % (60 * SubSec)
        degrees0 == minutes0 \div 60
        minutes1 == minutes0 % 60
        degrees == IF negative /\ degrees0 > 0 THEN -degrees0 ELSE degrees0
        seconds == IF negative /\ ~(degrees0 > 0) THEN -seconds0 ELSE seconds0
    IN  <<degrees, minutes1, IntOf(seconds)>>

\* decimal is the float in units of 1/(3600*SubSec) degree, so decimal*3600
\* is decimal/SubSec seconds; minutes and degrees are whole floats, seconds
\* keeps its fraction until int()
decimal_to_dms(decimal) ==
    LET negative == decimal < 0
        dec == IF negative THEN -decimal ELSE decimal
        minutes0 == dec \div (60 * SubSec)
        seconds0 == dec % (60 * SubSec)
        degrees0 == minutes0 \div 60
        minutes1 == minutes0 % 60
        degrees == IF negative /\ degrees0 > 0 THEN -degrees0 ELSE degrees0
        minutes == IF negative /\ ~(degrees0 > 0) /\ minutes1 > 0
                   THEN -minutes1 ELSE minutes1
        seconds == IF negative /\ ~(degrees0 > 0) /\ ~(minutes1 > 0)
                   THEN -seconds0 ELSE seconds0
    IN  <<degrees, minutes, IntOf(seconds)>>

\* coord is the parsed pair of floats of "LAT,LONG"
lat_long_decimal_to_dms(coord) ==
    <<decimal_to_dms(coord[1]), decimal_to_dms(coord[2])>>

\* ----------------------------------------------------------------- state
VARIABLES
    download_dir,   \* the target directory path
    albums,         \* the album list: <<[title, photos: <<[title, capture_date]>>]>>
    geo,            \* args.geo as a pair of floats, or <<>>
    coordinate,     \* the coordinate argument of download_albums, or <<>>
    dirs,           \* file system: the directories
    files,          \* file system: path -> [data, state, mtime]
    pc,             \* position of the program
    ai, pi,         \* loop positions in download_albums (album, photo)
    calls,          \* calls of download_albums so far
    gets,           \* photos fetched with requests.get in the current call
    skipped,        \* photos skipped in the current call
    writes,         \* the download writes of the current call
    warnings,       \* logging.warning calls of the current call
    result,         \* return value of the last download_albums call
    uuids,          \* uuid4 values drawn so far
    exitStatus,     \* exit status of the process, -1 while it runs
    decimal,        \* the input of a decimal_to_dms run
    dms             \* its output, or <<>>

vars == <<download_dir, albums, geo, coordinate, dirs, files, pc, ai, pi, calls,
          gets, skipped, writes, warnings, result, uuids, exitStatus,
          decimal, dms>>

\* --------------------------------------------------------------- inputs
NoDate == 0
\* a capture date one minute and fifteen seconds after the epoch
SampleDate == 60 + 15

PhotoTitles ==
    { <<"f", "i", "l", "e">>,
      FileJpg,
      <<"p", "r", "o">> \o FileJpg,
      <<"a">> \o DotJpg,
      <<"a", "?">> }

AlbumTitles == { <<"a", "/", "l">>, <<"v", ".", "1">> }

PlainDir == <<"d">>

\* every title without a capture date, and one photo with one
Photos ==
    [title : PhotoTitles, capture_date : {NoDate}]
        \cup [title : {<<"a">> \o DotJpg}, capture_date : {SampleDate}]

RECURSIVE SumLens(_, _)
SumLens(as, k) == IF k = 0 THEN 0 ELSE Len(as[k].photos) + SumLens(as, k - 1)
TotalPhotos(as) == SumLens(as, Len(as))

\* the lists of at most j albums holding at most n photos together, each
\* album holding at least `least` photos; an album without photos is put
\* first, if there is one
RECURSIVE ListsOf(_, _, _)
ListsOf(j, n, least) ==
    IF j = 0 THEN {<<>>}
    ELSE {<<>>} \cup UNION {
             { <<[title |-> t, photos |-> ps]>> \o rest :
                   t \in AlbumTitles, ps \in [1..m -> Photos],
                   rest \in ListsOf(j - 1, n - m, 1) } : m \in least..n }

AlbumLists == ListsOf(MaxAlbums, MaxPhotos, 0)

\* a --geo pair: 5 seconds north, 1 minute 1 second west
SampleGeo == <<5 * SubSec, -(61 * SubSec)>>


\* ---------------------------------------------------------- file system
\* Path.exists in the place of Path.is_dir
is_dir_or_file(path) == path \in dirs \/ path \in DOMAIN files
\* Path.is_dir
is_dir(path) == path \in dirs

\* Path.exists, asked of the parent directory instead
parent_exists(path) == Parent(path) \in dirs
\* Path.exists
exists(path) == path \in dirs \/ path \in DOMAIN files

\* the file table with path holding f
WithFile(fs, path, f) ==
    [p \in DOMAIN fs \cup {path} |-> IF p = path THEN f ELSE fs[p]]

\* strftime("%Y%m%d%H%M") and touch -mt: the capture date cut to the minute
touch_time(capture_date) == (capture_date \div 60) * 60

\* ------------------------------------------------------ download_albums
photo_id(a, p) == <<a, p>>

\* line 67
group_path_of(album) ==
    Join(download_dir, sanitize_filepath(Replace(album.title, "/", " ")))

\* line 71
base_path(a, p) ==
    Join(group_path_of(albums[a]), sanitize_filename(albums[a].photos[p].title))

\* lines 75-76
with_extension(filename) ==
    IF ~Contains(filename, <<".">>) THEN filename \o DotJpg ELSE filename

\* lines 77-78
with_unique_name(filename, n) ==
    IF Contains(filename, FileJpg)
    THEN DropLast(filename, 8) \o uuid4(n) \o DotJpg
    ELSE filename

\* lines 71-78 for a photo that is not skipped
target_path(a, p, n) == with_unique_name(with_extension(base_path(a, p)), n)

\* the loop's next position after photo p of album a (lines 65, 69)
Advance(a, p) ==
    IF p < Len(albums[a].photos)
    THEN /\ pc' = "photo" /\ ai' = a /\ pi' = p + 1
    ELSE /\ pc' = "album" /\ ai' = a + 1 /\ pi' = 0

\* the EXIF step of lines 85-97: where it fails and with what.  open and
\* write raise OSError; the exif library raises RuntimeError or another
\* exception
ExifOutcomes ==
    { <<"ok", "none">>,
      <<"read", "RuntimeError">>, <<"read", "OSError">>,
      <<"set", "RuntimeError">>, <<"set", "Other">>,
      <<"reopen", "OSError">>,
      <<"serialize", "RuntimeError">>, <<"serialize", "Other">>,
      <<"write", "OSError">> }

\* what the file holds after the EXIF step: open(filename, "wb") of line 94
\* empties it before get_file and write run
ExifFileState(stage) ==
    CASE stage = "ok" -> "tagged"
      [] stage \in {"read", "set", "reopen"} -> "raw"
      [] stage = "serialize" -> "empty"
      [] stage = "write" -> "partial"

\* lines 61-63 and the entry of the loop
Enter ==
    /\ calls' = calls + 1
    /\ gets' = <<>>
    /\ skipped' = {}
    /\ writes' = <<>>
    /\ warnings' = 0
    /\ IF ~is_dir(download_dir)
       THEN /\ result' = FALSE /\ pc' = "returned" /\ ai' = 0 /\ pi' = 0
       ELSE /\ result' = result /\ pc' = "album" /\ ai' = 1 /\ pi' = 0
    /\ UNCHANGED <<download_dir, albums, geo, coordinate, dirs, files, uuids,
                   exitStatus, decimal, dms>>

\* a caller calls download_albums(albums, download_dir, coordinate)
Call ==
    /\ pc = "idle"
    /\ Enter

\* and calls it again after it returned, with the same arguments
CallAgain ==
    /\ pc = "returned"
    /\ calls < MaxCalls
    /\ Enter

\* lines 65-68: the next album, its directory made if missing
AlbumStep ==
    /\ pc = "album"
    /\ ai <= Len(albums)
    /\ LET gp == group_path_of(albums[ai]) IN
       IF Parent(gp) \notin dirs \/ gp \in DOMAIN files
       THEN \* mkdir raises FileNotFoundError, NotADirectoryError or FileExistsError
            /\ pc' = "crashed"
            /\ UNCHANGED <<dirs, ai, pi>>
       ELSE /\ dirs' = dirs \cup {gp}
            /\ IF albums[ai].photos = <<>>
               THEN /\ pc' = "album" /\ ai' = ai + 1 /\ pi' = 0
               ELSE /\ pc' = "photo" /\ ai' = ai /\ pi' = 1
    /\ UNCHANGED <<download_dir, albums, geo, coordinate, files, calls, gets,
                   skipped, writes, warnings, result, uuids, exitStatus,
                   decimal, dms>>

\* lines 72-74
PhotoSkip ==
    /\ pc = "photo"
    /\ exists(base_path(ai, pi))
    /\ skipped' = skipped \cup {photo_id(ai, pi)}
    /\ Advance(ai, pi)
    /\ UNCHANGED <<download_dir, albums, geo, coordinate, dirs, files, calls,
                   gets, writes, warnings, result, uuids, exitStatus,
                   decimal, dms>>

\* line 80 raising: requests.get fails and nothing catches it
PhotoGetFails ==
    /\ pc = "photo"
    /\ ~exists(base_path(ai, pi))
    /\ uuids' = IF Contains(with_extension(base_path(ai, pi)), FileJpg)
                THEN uuids + 1 ELSE uuids
    /\ gets' = Append(gets, photo_id(ai, pi))
    /\ pc' = "crashed"
    /\ UNCHANGED <<download_dir, albums, geo, coordinate, dirs, files, ai, pi,
                   calls, skipped, writes, warnings, result, exitStatus,
                   decimal, dms>>

\* lines 75-102 for one photo: name, GET, write, EXIF step, touch
PhotoDownload(outcome) ==
    /\ pc = "photo"
    /\ ~exists(base_path(ai, pi))
    /\ outcome[1] # "ok" => coordinate # NoCoordinate
    /\ LET photo == albums[ai].photos[pi]
           unique == Contains(with_extension(base_path(ai, pi)), FileJpg)
           filename == target_path(ai, pi, uuids + 1)
           stage == IF coordinate # NoCoordinate THEN outcome[1] ELSE "none"
           caught == stage \notin {"ok", "none"} /\ outcome[2] = "RuntimeError"
           raised == stage \notin {"ok", "none"} /\ outcome[2] # "RuntimeError"
           state == IF stage = "none" THEN "raw" ELSE ExifFileState(stage)
           touched == ~raised /\ photo.capture_date # NoDate
           mtime == IF touched THEN touch_time(photo.capture_date) ELSE NoDate
       IN  /\ uuids' = IF unique THEN uuids + 1 ELSE uuids
           /\ gets' = Append(gets, photo_id(ai, pi))
           /\ writes' = Append(writes,
                  [photo |-> photo_id(ai, pi), path |-> filename,
                   existed |-> exists(filename), unique |-> unique,
                   exif |-> IF stage \in {"ok", "none"} THEN stage ELSE "failed"])
           /\ files' = WithFile(files, filename,
                  [data |-> photo_id(ai, pi), state |-> state,
                   gps |-> IF state = "tagged" THEN coordinate ELSE NoCoordinate,
                   mtime |-> mtime])
           /\ warnings' = IF caught THEN warnings + 1 ELSE warnings
           /\ IF raised
              THEN pc' = "crashed" /\ UNCHANGED <<ai, pi>>
              ELSE Advance(ai, pi)
    /\ UNCHANGED <<download_dir, albums, geo, coordinate, dirs, calls, skipped,
                   result, exitStatus, decimal, dms>>

\* line 104
Return ==
    /\ pc = "album"
    /\ ai > Len(albums)
    /\ pc' = "returned"
    /\ result' = TRUE
    /\ UNCHANGED <<download_dir, albums, geo, coordinate, dirs, files, ai, pi,
                   calls, gets, skipped, writes, warnings, uuids, exitStatus,
                   decimal, dms>>

\* ------------------------------------------------- the download as an API
InitFs(kind) ==
    /\ dirs = IF kind = "dir" THEN {download_dir} ELSE {}
    /\ files = IF kind = "file"
               THEN [p \in {download_dir} |->
                        [data |-> <<0, 0>>, state |-> "raw",
                         gps |-> NoCoordinate, mtime |-> NoDate]]
               ELSE [p \in {} |-> [data |-> <<0, 0>>, state |-> "raw",
                                   gps |-> NoCoordinate, mtime |-> NoDate]]

Targets == { <<PlainDir, "dir">>, <<PlainDir, "missing">>, <<PlainDir, "file">> }

InitRun ==
    /\ albums \in AlbumLists
    /\ \E t \in Targets : download_dir = t[1] /\ InitFs(t[2])
    /\ ai = 0 /\ pi = 0 /\ calls = 0
    /\ gets = <<>> /\ skipped = {} /\ writes = <<>> /\ warnings = 0
    /\ result = FALSE /\ uuids = 0 /\ exitStatus = -1
    /\ decimal = 0 /\ dms = NoDms

Init ==
    /\ InitRun
    /\ geo = <<>>
    /\ coordinate \in {NoCoordinate, lat_long_decimal_to_dms(SampleGeo)}
    /\ pc = "idle"

\* ------------------------------------------------------------ the script
BadGeo == <<SubSec>>
GeoArgs == {<<>>, SampleGeo, BadGeo}

\* line 222
main_return(success) == IF success THEN 0 ELSE 1

\* lines 225-226: the script calls main() and drops what it returns, so
\* the interpreter ends with status 0 after any normal return
script_exit(ret) == 0

MainUnchanged ==
    UNCHANGED <<download_dir, albums, geo, dirs, files, ai, pi, calls, gets,
                skipped, writes, warnings, result, uuids, decimal, dms>>

\* line 217: get_albums returns the album list
MainGetAlbums ==
    /\ pc = "main"
    /\ pc' = "geo"
    /\ UNCHANGED <<coordinate, exitStatus>>
    /\ MainUnchanged

\* line 217: get_albums raises (network or response shape), uncaught
MainGetAlbumsFails ==
    /\ pc = "main"
    /\ pc' = "crashed"
    /\ UNCHANGED <<coordinate, exitStatus>>
    /\ MainUnchanged

\* lines 218-220 (line 41 raises ValueError unless the text splits in two)
MainGeo ==
    /\ pc = "geo"
    /\ IF geo = <<>>
       THEN pc' = "call" /\ coordinate' = NoCoordinate
       ELSE IF Len(geo) # 2
       THEN pc' = "crashed" /\ coordinate' = coordinate
       ELSE pc' = "call" /\ coordinate' = lat_long_decimal_to_dms(geo)
    /\ UNCHANGED exitStatus
    /\ MainUnchanged

\* line 221
MainCall ==
    /\ pc = "call"
    /\ Enter

\* lines 222 and 226
MainExit ==
    /\ pc = "returned"
    /\ pc' = "exited"
    /\ exitStatus' = script_exit(main_return(result))
    /\ UNCHANGED coordinate
    /\ MainUnchanged

\* an uncaught exception ends the interpreter with status 1
MainAbort ==
    /\ pc = "crashed"
    /\ pc' = "aborted"
    /\ exitStatus' = 1
    /\ UNCHANGED coordinate
    /\ MainUnchanged

InitMain ==
    /\ InitRun
    /\ geo \in GeoArgs
    /\ coordinate = NoCoordinate
    /\ pc = "main"

NextMain ==
    \/ MainGetAlbums
    \/ MainGetAlbumsFails
    \/ MainGeo
    \/ MainCall
    \/ AlbumStep
    \/ PhotoSkip
    \/ PhotoGetFails
    \/ \E outcome \in ExifOutcomes : PhotoDownload(outcome)
    \/ Return
    \/ MainExit
    \/ MainAbort

SpecMain == InitMain /\ [][NextMain]_vars

\* ------------------------------------------- decimal_to_dms on its own
Decimals == (-(MaxArcSec * SubSec))..(MaxArcSec * SubSec)

InitDms ==
    /\ download_dir = PlainDir
    /\ albums = <<>>
    /\ InitFs("missing")
    /\ geo = <<>> /\ coordinate = NoCoordinate
    /\ ai = 0 /\ pi = 0 /\ calls = 0
    /\ gets = <<>> /\ skipped = {} /\ writes = <<>> /\ warnings = 0
    /\ result = FALSE /\ uuids = 0 /\ exitStatus = -1
    /\ decimal \in Decimals
    /\ dms = NoDms
    /\ pc = "dms"

\* one call decimal_to_dms(decimal)
Convert ==
    /\ pc = "dms"
    /\ dms' = decimal_to_dms(decimal)
    /\ pc' = "dms_done"
    /\ UNCHANGED <<download_dir, albums, geo, coordinate, dirs, files, ai, pi,
                   calls, gets, skipped, writes, warnings, result, uuids,
                   exitStatus, decimal>>

NextDms == Convert

SpecDms == InitDms /\ [][NextDms]_vars

Next ==
    \/ Call
    \/ AlbumStep
    \/ PhotoSkip
    \/ PhotoGetFails
    \/ \E outcome \in ExifOutcomes : PhotoDownload(outcome)
    \/ Return

Spec == Init /\ [][Next]_vars

NextRerun == Next \/ CallAgain

SpecRerun == Init /\ [][NextRerun]_vars

\* ================================================================ claims

\* the photos of an album list, in album order and then photo order
RECURSIVE PhotosFrom(_, _)
PhotosFrom(as, a) ==
    IF a > Len(as) THEN <<>>
    ELSE [p \in 1..Len(as[a].photos) |-> photo_id(a, p)] \o PhotosFrom(as, a + 1)
AllPhotos(as) == PhotosFrom(as, 1)

Before(q, id) == q[1] < id[1] \/ (q[1] = id[1] /\ q[2] < id[2])
FName(id) == sanitize_filename(albums[id[1]].photos[id[2]].title)
Group(id) == group_path_of(albums[id[1]])
HasDot(s) == \E i \in 1..Len(s) : s[i] = "."
IsUniqueName(path) ==
    \E k \in 1..Len(UuidPool) : Basename(path) = <<UuidPool[k]>> \o DotJpg
FirstCallDone == pc = "returned" /\ calls = 1 /\ result = TRUE

\* C1: after a completed first call, a second call with the same albums and
\* directory issues no GET for photo bytes and returns True.
C1_RerunIssuesNoGet ==
    (pc = "returned" /\ calls >= 2 /\ download_dir \in dirs)
        => (gets = <<>> /\ result = TRUE)

\* C2: with a target path that is no directory, download_albums returns
\* False without raising, creates no directory and no file, and issues no
\* network request.
C2_MissingDirFails ==
    download_dir \notin dirs =>
        /\ pc \in {"idle", "returned"}
        /\ pc = "returned" => result = FALSE
        /\ gets = <<>> /\ writes = <<>>
        /\ dirs = {}
        /\ DOMAIN files \subseteq {download_dir}

C2_Witness ==
    /\ pc = "returned" /\ calls = 1
    /\ download_dir \notin dirs
    /\ TotalPhotos(albums) > 0
    /\ coordinate # NoCoordinate

\* C3: the process exits with status 0 when download_albums returned True
\* and with status 1 when it returned False.
C3_ExitStatusFollowsResult ==
    pc = "exited" => exitStatus = (IF result THEN 0 ELSE 1)

\* C4: one album holding the photos 'file' and 'file.jpg', downloaded into
\* an empty album directory, leaves two distinct files, each under a
\* generated unique name ending in .jpg, the second write not overwriting.
C4_TwoFallbackPhotosKept ==
    (/\ FirstCallDone
     /\ Len(albums) = 1
     /\ Len(albums[1].photos) = 2
     /\ {sanitize_filename(albums[1].photos[p].title) : p \in 1..2}
            = {<<"f", "i", "l", "e">>, FileJpg})
        => /\ Len(writes) = 2
           /\ writes[1].path # writes[2].path
           /\ ~writes[2].existed
           /\ \A i \in 1..2 : /\ writes[i].path \in DOMAIN files
                              /\ IsUniqueName(writes[i].path)

\* C5: when the EXIF step of a downloaded photo fails, a warning is logged,
\* the file still holds exactly the downloaded bytes, and processing goes
\* on with the capture-date step and the next photo.
C5_ExifFailureKeepsFile ==
    (writes # <<>> /\ writes[Len(writes)].exif = "failed") =>
        LET w == writes[Len(writes)]
            photo == albums[w.photo[1]].photos[w.photo[2]]
        IN  /\ pc # "crashed"
            /\ warnings = Cardinality({i \in 1..Len(writes) : writes[i].exif = "failed"})
            /\ files[w.path].data = w.photo
            /\ files[w.path].state = "raw"
            /\ photo.capture_date # NoDate =>
                   files[w.path].mtime = touch_time(photo.capture_date)

Negatives(t) == {i \in 1..3 : t[i] < 0}
FirstNonZero(t) == IF t[1] # 0 THEN 1 ELSE IF t[2] # 0 THEN 2 ELSE 3

\* C6 as stated: every negative input gives exactly one negative component,
\* the first non-zero one; a non-negative input gives none; 0.0 gives (0,0,0).
C6_SignOnFirstNonZero ==
    dms # NoDms =>
        /\ decimal < 0 => (Negatives(dms) = {FirstNonZero(dms)} /\ dms # <<0, 0, 0>>)
        /\ decimal >= 0 => Negatives(dms) = {}
        /\ decimal = 0 => dms = <<0, 0, 0>>

\* C6 amended: a negative input of at least one arc second gives exactly one
\* negative component, the first non-zero one; a negative input of less than
\* one arc second gives (0, 0, 0); a non-negative input gives no negative
\* component and 0.0 gives (0, 0, 0).
C6_SignOnFirstNonZeroFromOneSecond ==
    dms # NoDms =>
        /\ (decimal < 0 /\ -decimal >= SubSec) =>
               (Negatives(dms) = {FirstNonZero(dms)} /\ dms # <<0, 0, 0>>)
        /\ (decimal < 0 /\ -decimal < SubSec) => dms = <<0, 0, 0>>
        /\ decimal >= 0 => Negatives(dms) = {}
        /\ decimal = 0 => dms = <<0, 0, 0>>

C6_Witness ==
    /\ pc = "dms_done"
    /\ decimal < 0
    /\ dms[1] = 0 /\ dms[2] < 0 /\ dms[3] > 0

\* C7: a file gets a generated unique name only when the photo's sanitized
\* filename, .jpg appended if it has no extension, equals file.jpg; every
\* other photo is written at <dir>/<album>/<sanitized title>[.jpg].
C7_UniqueNameOnlyForFallback ==
    \A i \in 1..Len(writes) :
        LET w == writes[i]
            fname == FName(w.photo)
            named == IF HasDot(fname) THEN fname ELSE fname \o DotJpg
        IN  /\ w.unique => named = FileJpg
            /\ ~w.unique => w.path \in {Join(Group(w.photo), fname),
                                        Join(Group(w.photo), fname \o DotJpg)}

\* C8: a sanitized filename without extension is written with .jpg appended,
\* whatever the directory and album names are; one with an extension is
\* written unchanged (the unique naming of lines 77-78 aside).
C8_JpgAppendedWithoutExtension ==
    \A i \in 1..Len(writes) :
        LET w == writes[i]
            fname == FName(w.photo)
        IN  ~w.unique =>
                w.path = Join(Group(w.photo),
                              IF HasDot(fname) THEN fname ELSE fname \o DotJpg)

\* C9: no download write goes to a path that already holds a file.
C9_NoWriteOverwrites ==
    \A i \in 1..Len(writes) : ~writes[i].existed

SameNameEarlier(q, id) ==
    /\ Before(q, id)
    /\ q \notin skipped
    /\ Group(q) = Group(id)

====
